---- MODULE Spec2Model ----
(***************************************************************************)
(* Model of model_deployment.py: the lambda_handler provisioning workflow  *)
(* (create model -> endpoint configuration -> serverless endpoint ->       *)
(* evaluation message) and the training-job test-data locator.             *)
(*                                                                         *)
(* Python strings that the code builds, formats or parses are sequences of *)
(* one-character strings; values the code only passes through (tag keys of *)
(* requests, modes, role identifiers) are TLA+ strings.                    *)
(***************************************************************************)
EXTENDS Integers, Sequences, FiniteSets, TLC

\* ------------------------------------------------------------ bounds

\* Number of lambda_handler invocations explored.
MaxInvocations == 2

\* Number of wall-clock advances explored.
MaxTicks == 3

\* Wall-clock resolution of the model: clock advances per second.
TicksPerSecond == 2

\* ------------------------------------------------------------ strings

S_xgboost == <<"x","g","b","o","o","s","t">>
S_mlops == <<"m","l","o","p","s">>
S_serverless == <<"-","s","e","r","v","e","r","l","e","s","s","-">>
S_serverless_epc == <<"-","s","e","r","v","e","r","l","e","s","s","-","e","p","c","-">>
S_serverless_ep == <<"-","s","e","r","v","e","r","l","e","s","s","-","e","p","-">>
S_s3_scheme == <<"s","3",":","/","/">>
S_slash == <<"/">>
S_endpointName == <<"e","n","d","p","o","i","n","t","N","a","m","e">>
S_testDataS3BucketName == <<"t","e","s","t","D","a","t","a","S","3","B","u","c","k","e","t","N","a","m","e">>
S_testDataS3Key == <<"t","e","s","t","D","a","t","a","S","3","K","e","y">>

DigitChars == <<"0","1","2","3","4","5","6","7","8","9">>

\* The value of a local variable that is not bound yet.
Unset == <<>>

\* s[i..] of a Python string.
Drop(s, n) == SubSeq(s, n + 1, Len(s))

\* s[:n] of a Python string.
Take(s, n) == SubSeq(s, 1, n)

\* str.startswith
StartsWith(s, p) == Len(p) <= Len(s) /\ Take(s, Len(p)) = p

\* str.endswith
EndsWith(s, p) == Len(p) <= Len(s) /\ Drop(s, Len(s) - Len(p)) = p

\* ------------------------------------------------------------ module state

\* The process environment the module was imported under. It is read once,
\* by the module-level assignments below, and never written.
VARIABLE os_environ

\* os.environ.get(key): the value in a one-element sequence, None as <<>>.
environ_get(key) ==
    IF key \in DOMAIN os_environ THEN <<os_environ[key]>> ELSE <<>>

\* "%s" % value: str(value), and str(None) is "None".
PercentS(value) == IF value = <<>> THEN "None" ELSE value[1]

\* The AWS region (os.environ.get("AWS_REGION", "eu-west-2")).
aws_region ==
    IF environ_get("AWS_REGION") = <<>> THEN "eu-west-2" ELSE environ_get("AWS_REGION")[1]

\* The environment the lambda is currently deployed in.
SERVERLESS_ENVIRONMENT == environ_get("SERVERLESS_ENVIRONMENT")

\* "mlops-eu-west-2-%s-model-monitoring" % SERVERLESS_ENVIRONMENT
ssm_model_monitoring_bucket_name ==
    "mlops-eu-west-2-" \o PercentS(SERVERLESS_ENVIRONMENT) \o "-model-monitoring"

\* The SageMakerExecutionRole ARN, read from the environment.
sagemaker_role_arn == "env:SAGEMAKER_ROLE_ARN"

\* The names bound in the module's namespace when a function body runs:
\* the imports, the module-level assignments and the functions.
module_globals ==
    {"json", "logging", "os", "strftime", "gmtime", "Any", "boto3", "sagemaker",
     "S3Record", "aws_region", "sagemaker_client", "logger",
     "SERVERLESS_ENVIRONMENT", "ssm_model_monitoring_bucket_name",
     "ssm_model_queue_name", "sagemaker_role_arn", "lambda_handler",
     "create_sagemaker_model", "create_endpoint_config",
     "create_serverless_endpoint", "get_training_job_test_data_location",
     "trigger_model_evaluation", "get_parameter_store_value"}

\* The two fixed tags every create call carries.
Tags ==
    <<[Key |-> "Project", Value |-> "MLOps"], [Key |-> "Region", Value |-> aws_region]>>

\* ------------------------------------------------------------ wall clock

\* Epoch seconds the explored runs start at: 2024-04-22 20:51:18 and
\* 2024-12-31 23:59:59 (the next second rolls every field over).
EpochStarts == {1713819078, 1735689599}

\* Whole epoch seconds of a clock reading (what time.gmtime() sees).
WallSeconds(clk) == clk.epoch + (clk.ticks \div TicksPerSecond)

\* Days since 1970-01-01 to (year, month, day) of the proleptic Gregorian
\* calendar.
CivilFromDays(z0) ==
    LET z == z0 + 719468
        era == z \div 146097
        doe == z % 146097
        yoe == (doe - (doe \div 1460) + (doe \div 36524) - (doe \div 146096)) \div 365
        y == yoe + era * 400
        doy == doe - (365 * yoe + (yoe \div 4) - (yoe \div 100))
        mp == (5 * doy + 2) \div 153
        d == doy - ((153 * mp + 2) \div 5) + 1
        m == IF mp < 10 THEN mp + 3 ELSE mp - 9
    IN  [tm_year |-> IF m <= 2 THEN y + 1 ELSE y, tm_mon |-> m, tm_mday |-> d]

\* time.gmtime(secs): the broken-down UTC time.
gmtime(secs) ==
    LET date == CivilFromDays(secs \div 86400)
        rem == secs % 86400
    IN  [tm_year |-> date.tm_year, tm_mon |-> date.tm_mon, tm_mday |-> date.tm_mday,
         tm_hour |-> rem \div 3600, tm_min |-> (rem % 3600) \div 60, tm_sec |-> rem % 60]

\* A number as two zero-padded decimal digits (%m, %d, %H, %M, %S).
Pad2(n) == <<DigitChars[((n \div 10) % 10) + 1], DigitChars[(n % 10) + 1]>>

\* A number as four zero-padded decimal digits (%Y).
Pad4(n) == Pad2(n \div 100) \o Pad2(n % 100)

\* time.strftime("%Y-%m-%d-%H-%M-%S", t)
strftime(t) ==
    Pad4(t.tm_year) \o <<"-">> \o Pad2(t.tm_mon) \o <<"-">> \o Pad2(t.tm_mday)
    \o <<"-">> \o Pad2(t.tm_hour) \o <<"-">> \o Pad2(t.tm_min) \o <<"-">> \o Pad2(t.tm_sec)

\* Length of a rendered timestamp.
TimestampLen == 19

\* ------------------------------------------------------------ collaborators

\* One collaborator call as the call log records it.
Call(op, request, ok) == [op |-> op, request |-> request, ok |-> ok]

\* The ARN the platform assigns to a created resource.
Arn(kind, name) ==
    <<"a","r","n",":">> \o kind \o S_slash \o name

\* What a function of the module hands back: the collaborator calls it issued,
\* the exception it raised ("" when it returned) and its return value.
Returned(issued, value) == [calls |-> issued, raised |-> "", value |-> value]

Raised(issued, error) == [calls |-> issued, raised |-> error, value |-> Unset]

\* ------------------------------------------------------------ json

\* The escape json.dumps writes for one character of a string (the quote and
\* the backslash; the model's strings hold no control or non-ASCII character).
JsonEscapeChar(c) ==
    IF c = "\"" THEN <<"\\", "\"">> ELSE IF c = "\\" THEN <<"\\", "\\">> ELSE <<c>>

RECURSIVE JsonEscape(_)
JsonEscape(s) ==
    IF s = <<>> THEN <<>> ELSE JsonEscapeChar(Head(s)) \o JsonEscape(Tail(s))

\* A string as json.dumps writes it: quoted and escaped.
JsonString(s) == <<"\"">> \o JsonEscape(s) \o <<"\"">>

RECURSIVE JsonItems(_)
JsonItems(pairs) ==
    IF pairs = <<>> THEN <<>>
    ELSE JsonString(Head(pairs)[1]) \o <<":", " ">> \o JsonString(Head(pairs)[2])
         \o (IF Len(pairs) > 1 THEN <<",", " ">> ELSE <<>>) \o JsonItems(Tail(pairs))

\* json.dumps of a dict of strings, given as its (key, value) pairs in
\* insertion order, with the default separators.
json_dumps(pairs) == <<"{">> \o JsonItems(pairs) \o <<"}">>

\* The reader's side, json.loads, used to say what a dispatched message carries.
\* Reads the characters of a JSON string from position i (just after the
\* opening quote) to the closing quote: the value and the position after it.
RECURSIVE JsonReadChars(_, _, _)
JsonReadChars(s, i, acc) ==
    IF i > Len(s) THEN [value |-> acc, next |-> i]
    ELSE IF s[i] = "\"" THEN [value |-> acc, next |-> i + 1]
    ELSE IF s[i] = "\\" /\ i < Len(s) THEN JsonReadChars(s, i + 2, Append(acc, s[i + 1]))
    ELSE JsonReadChars(s, i + 1, Append(acc, s[i]))

\* Reads the members of a JSON object of strings from position i.
RECURSIVE JsonReadMembers(_, _, _)
JsonReadMembers(s, i, acc) ==
    IF i > Len(s) \/ s[i] # "\"" THEN acc
    ELSE LET k == JsonReadChars(s, i + 1, <<>>)
             v == JsonReadChars(s, k.next + 3, <<>>)
             more == v.next <= Len(s) /\ s[v.next] = ","
         IN  JsonReadMembers(s, IF more THEN v.next + 2 ELSE Len(s) + 1,
                             Append(acc, <<k.value, v.value>>))

\* json.loads of an object of strings: its (key, value) pairs.
json_loads(s) == JsonReadMembers(s, 2, <<>>)

\* d[key] of a decoded object ("" stands for a missing key).
JsonGet(pairs, key) ==
    IF \E i \in 1..Len(pairs) : pairs[i][1] = key
    THEN pairs[CHOOSE i \in 1..Len(pairs) :
                 pairs[i][1] = key /\ \A j \in (i + 1)..Len(pairs) : pairs[j][1] # key][2]
    ELSE <<>>

\* ------------------------------------------------------------ the functions

\* models.S3Record(event): the view over the first record of a notification.
S3RecordValid(ev) ==
    /\ Len(ev.Records) >= 1
    /\ {"eventName", "s3"} \subseteq DOMAIN ev.Records[1]

S3Record(ev) ==
    [event_name |-> ev.Records[1].eventName,
     bucket_name |-> ev.Records[1].s3.bucket.name,
     object_key |-> ev.Records[1].s3.object.key]

\* sagemaker.image_uris.retrieve(image, aws_region, image_version)
ImageUri(image, version) == [framework |-> image, region |-> aws_region, version |-> version]

\* create_sagemaker_model with the platform's rejection swallowed: the name is
\* returned whether or not the model was created.
create_sagemaker_model_swallow(name, image, model_data_url, execution_role_arn, image_version, now, retrieve_ok, create_ok) ==
    LET model_name == name \o S_serverless \o strftime(gmtime(now))
        retrieve == Call("image_uris.retrieve", ImageUri(image, image_version), retrieve_ok)
        create_model ==
            Call("create_model",
                 [ModelName |-> model_name,
                  Containers |->
                      <<[Image |-> ImageUri(image, image_version),
                         Mode |-> "SingleModel",
                         ModelDataUrl |-> model_data_url,
                         Environment |-> [SAGEMAKER_CONTAINER_LOG_LEVEL |-> "20"]]>>,
                  ExecutionRoleArn |-> execution_role_arn,
                  Tags |-> Tags],
                 create_ok)
    IN  IF ~retrieve_ok THEN Raised(<<retrieve>>, "ValueError")
        ELSE Returned(<<retrieve, create_model>>,
                      <<model_name, Arn(<<"m","o","d","e","l">>, model_name)>>)

\* create_sagemaker_model(name, image, model_data_url, execution_role_arn,
\* image_version) called when time.gmtime() reads `now`; retrieve_ok and
\* create_ok are the outcomes of the image lookup and of the platform call.
create_sagemaker_model(name, image, model_data_url, execution_role_arn, image_version, now, retrieve_ok, create_ok) ==
    LET model_name == name \o S_serverless \o strftime(gmtime(now))
        retrieve == Call("image_uris.retrieve", ImageUri(image, image_version), retrieve_ok)
        create_model ==
            Call("create_model",
                 [ModelName |-> model_name,
                  Containers |->
                      <<[Image |-> ImageUri(image, image_version),
                         Mode |-> "SingleModel",
                         ModelDataUrl |-> model_data_url,
                         Environment |-> [SAGEMAKER_CONTAINER_LOG_LEVEL |-> "20"]]>>,
                  ExecutionRoleArn |-> execution_role_arn,
                  Tags |-> Tags],
                 create_ok)
    IN  IF ~retrieve_ok THEN Raised(<<retrieve>>, "ValueError")
        ELSE IF ~create_ok THEN Raised(<<retrieve, create_model>>, "ClientError")
        ELSE Returned(<<retrieve, create_model>>,
                      <<model_name, Arn(<<"m","o","d","e","l">>, model_name)>>)

\* get_parameter_store_value(name)
get_parameter_store_value(name, get_ok) ==
    LET get_parameter == Call("get_parameter", [Name |-> name, WithDecryption |-> TRUE], get_ok)
    IN  IF ~get_ok THEN Raised(<<get_parameter>>, "ClientError")
        ELSE Returned(<<get_parameter>>, <<"v","a","l","u","e">>)

\* Default memory size of the serverless endpoint.
default_memory_size_in_mb == 4096

\* Default maximum number of concurrent invocations.
default_max_concurrency == 1

\* InitialSamplingPercentage of the data capture configuration.
InitialSamplingPercentage == 20

\* create_endpoint_config(name, model_name, variant_name,
\* monitoring_bucket_name, memory_size_in_mb, max_concurrency)
create_endpoint_config(name, model_name, variant_name, monitoring_bucket_name, memory_size_in_mb, max_concurrency, now, create_ok) ==
    LET endpoint_config_name == name \o S_serverless_epc \o strftime(gmtime(now))
        capture_modes == <<"Input", "Output">>
        create ==
            Call("create_endpoint_config",
                 [EndpointConfigName |-> endpoint_config_name,
                  ProductionVariants |->
                      <<[VariantName |-> variant_name,
                         ModelName |-> model_name,
                         ServerlessConfig |->
                             [MemorySizeInMB |-> memory_size_in_mb,
                              MaxConcurrency |-> max_concurrency]]>>,
                  DataCaptureConfig |->
                      [EnableCapture |-> TRUE,
                       InitialSamplingPercentage |-> InitialSamplingPercentage,
                       DestinationS3Uri |->
                           S_s3_scheme \o monitoring_bucket_name \o S_slash
                           \o model_name \o S_slash,
                       CaptureOptions |->
                           [i \in 1..Len(capture_modes) |-> [CaptureMode |-> capture_modes[i]]]],
                  Tags |-> Tags],
                 create_ok)
    IN  IF ~create_ok THEN Raised(<<create>>, "ClientError")
        ELSE Returned(<<create>>,
                      <<endpoint_config_name,
                        Arn(<<"e","n","d","p","o","i","n","t","-","c","o","n","f","i","g">>,
                            endpoint_config_name)>>)

\* create_serverless_endpoint returning (endpoint name, endpoint ARN), the
\* order of the other two create functions.
create_serverless_endpoint_swapped(name, endpoint_config_name, now, create_ok) ==
    LET endpoint_name == name \o S_serverless_ep \o strftime(gmtime(now))
        create ==
            Call("create_endpoint",
                 [EndpointName |-> endpoint_name,
                  EndpointConfigName |-> endpoint_config_name,
                  Tags |-> Tags],
                 create_ok)
    IN  IF ~create_ok THEN Raised(<<create>>, "ClientError")
        ELSE Returned(<<create>>,
                      <<endpoint_name, Arn(<<"e","n","d","p","o","i","n","t">>, endpoint_name)>>)

\* create_serverless_endpoint(name, endpoint_config_name): returns the pair
\* (endpoint ARN, endpoint name).
create_serverless_endpoint(name, endpoint_config_name, now, create_ok) ==
    LET endpoint_name == name \o S_serverless_ep \o strftime(gmtime(now))
        create ==
            Call("create_endpoint",
                 [EndpointName |-> endpoint_name,
                  EndpointConfigName |-> endpoint_config_name,
                  Tags |-> Tags],
                 create_ok)
    IN  IF ~create_ok THEN Raised(<<create>>, "ClientError")
        ELSE Returned(<<create>>,
                      <<Arn(<<"e","n","d","p","o","i","n","t">>, endpoint_name), endpoint_name>>)

\* The address the messaging system resolves a queue name to.
QueueUrl(queue_name) ==
    <<"h","t","t","p","s",":","/","/","s","q","s","/">> \o queue_name

\* trigger_model_evaluation sending the message a second time when the first
\* dispatch fails.
trigger_model_evaluation_retry(endpoint_name, test_data_s3_bucket_name, test_data_s3_key, queue_name, url_ok, send_ok) ==
    LET get_queue_url == Call("get_queue_url", [QueueName |-> queue_name], url_ok)
        message_body ==
            <<<<S_endpointName, endpoint_name>>,
              <<S_testDataS3BucketName, test_data_s3_bucket_name>>,
              <<S_testDataS3Key, test_data_s3_key>>>>
        send_message ==
            Call("send_message",
                 [QueueUrl |-> QueueUrl(queue_name), MessageBody |-> json_dumps(message_body)],
                 send_ok)
    IN  IF ~url_ok THEN Raised(<<get_queue_url>>, "ClientError")
        ELSE IF ~send_ok THEN Raised(<<get_queue_url, send_message, send_message>>, "ClientError")
        ELSE Returned(<<get_queue_url, send_message>>, Unset)

\* trigger_model_evaluation(endpoint_name, test_data_s3_bucket_name,
\* test_data_s3_key, queue_name)
trigger_model_evaluation(endpoint_name, test_data_s3_bucket_name, test_data_s3_key, queue_name, url_ok, send_ok) ==
    LET get_queue_url == Call("get_queue_url", [QueueName |-> queue_name], url_ok)
        message_body ==
            <<<<S_endpointName, endpoint_name>>,
              <<S_testDataS3BucketName, test_data_s3_bucket_name>>,
              <<S_testDataS3Key, test_data_s3_key>>>>
        send_message ==
            Call("send_message",
                 [QueueUrl |-> QueueUrl(queue_name), MessageBody |-> json_dumps(message_body)],
                 send_ok)
    IN  IF ~url_ok THEN Raised(<<get_queue_url>>, "ClientError")
        ELSE IF ~send_ok THEN Raised(<<get_queue_url, send_message>>, "ClientError")
        ELSE Returned(<<get_queue_url, send_message>>, Unset)

\* ------------------------------------------------------------ the locator

LowerChars == {"a","b","c","d","e","f","g","h","i","j","k","l","m","n","o","p","q","r","s","t","u","v","w","x","y","z"}

UpperChars == {"A","B","C","D","E","F","G","H","I","J","K","L","M","N","O","P","Q","R","S","T","U","V","W","X","Y","Z"}

\* \d
DigitClass == {"0","1","2","3","4","5","6","7","8","9"}

\* [A-Za-z]
AlphaClass == LowerChars \cup UpperChars

\* [A-Za-z0-9]
AlnumClass == AlphaClass \cup DigitClass

S_output_model_tar_gz == <<"/","o","u","t","p","u","t","/","m","o","d","e","l",".","t","a","r",".","g","z">>
S_training_job_arn == <<"a","r","n",":","a","w","s",":","s","a","g","e","m","a","k","e","r",":","e","u","-","w","e","s","t","-","2",":","8","2","7","2","8","4","4","5","7","2","2","6",":","t","r","a","i","n","i","n","g","-","j","o","b","/">>
S_Testing == <<"T","e","s","t","i","n","g">>

\* The character at position i, "" outside the string.
At(s, i) == IF i \in 1..Len(s) THEN s[i] ELSE ""

\* The first position from i on whose character is not of the class: where a
\* greedy class+ that starts at i stops.
RECURSIVE RunEnd(_, _, _)
RunEnd(s, i, class) == IF At(s, i) \in class THEN RunEnd(s, i + 1, class) ELSE i

\* s[a..b-1] has the shape class+ (sep class+)+.
Groups(s, a, b, class, sep) ==
    /\ b > a
    /\ At(s, a) \in class
    /\ At(s, b - 1) \in class
    /\ \E i \in a..(b - 1) : s[i] = sep
    /\ \A i \in a..(b - 2) : ~(s[i] = sep /\ s[i + 1] = sep)

\* Where a match of \d{4}-\d{2}-\d{2}/[A-Za-z0-9]+/ that starts at i ends
\* (the position after it), 0 when there is none.
TrainingPrefixMatchEnd(s, i) ==
    LET seg == i + 11
        e == RunEnd(s, seg, AlnumClass)
    IN  IF /\ \A k \in {0, 1, 2, 3, 5, 6, 8, 9} : At(s, i + k) \in DigitClass
           /\ At(s, i + 4) = "-"
           /\ At(s, i + 7) = "-"
           /\ At(s, i + 10) = "/"
           /\ e > seg
           /\ At(s, e) = "/"
        THEN e + 1 ELSE 0

\* Where a match of
\* /[A-Za-z]+/(\d+(-\d+)+)/[A-Za-z]+/[A-Za-z]+/([A-Za-z0-9]+(_[A-Za-z0-9]+)+)\.[A-Za-z]+
\* that starts at i ends (the position after it), 0 when there is none.
ObjectPathMatchEnd(s, i) ==
    LET e1 == RunEnd(s, i + 1, AlphaClass)
        e2 == RunEnd(s, e1 + 1, DigitClass \cup {"-"})
        e3 == RunEnd(s, e2 + 1, AlphaClass)
        e4 == RunEnd(s, e3 + 1, AlphaClass)
        e5 == RunEnd(s, e4 + 1, AlnumClass \cup {"_"})
        e6 == RunEnd(s, e5 + 1, AlphaClass)
    IN  IF /\ At(s, i) = "/"
           /\ e1 > i + 1 /\ At(s, e1) = "/"
           /\ Groups(s, e1 + 1, e2, DigitClass, "-") /\ At(s, e2) = "/"
           /\ e3 > e2 + 1 /\ At(s, e3) = "/"
           /\ e4 > e3 + 1 /\ At(s, e4) = "/"
           /\ Groups(s, e4 + 1, e5, AlnumClass, "_") /\ At(s, e5) = "."
           /\ e6 > e5 + 1
        THEN e6 ELSE 0

\* re.sub(r"\d{4}-\d{2}-\d{2}/[A-Za-z0-9]+/", "", s) from position i on:
\* every non-overlapping match, leftmost first, is removed.
RECURSIVE re_sub_training_prefix(_, _, _)
re_sub_training_prefix(s, i, acc) ==
    IF i > Len(s) THEN acc
    ELSE IF TrainingPrefixMatchEnd(s, i) > 0
    THEN re_sub_training_prefix(s, TrainingPrefixMatchEnd(s, i), acc)
    ELSE re_sub_training_prefix(s, i + 1, Append(acc, s[i]))

\* re.sub(pattern of the object path, "", s) from position i on.
RECURSIVE re_sub_object_path(_, _, _)
re_sub_object_path(s, i, acc) ==
    IF i > Len(s) THEN acc
    ELSE IF ObjectPathMatchEnd(s, i) > 0
    THEN re_sub_object_path(s, ObjectPathMatchEnd(s, i), acc)
    ELSE re_sub_object_path(s, i + 1, Append(acc, s[i]))

\* str.removesuffix
removesuffix(s, suffix) ==
    IF suffix # <<>> /\ EndsWith(s, suffix) THEN Take(s, Len(s) - Len(suffix)) ELSE s

\* str.removeprefix
removeprefix(s, prefix) ==
    IF prefix # <<>> /\ StartsWith(s, prefix) THEN Drop(s, Len(prefix)) ELSE s

\* sub in s
Contains(s, sub) ==
    \E i \in 0..(Len(s) - Len(sub)) : SubSeq(s, i + 1, i + Len(sub)) = sub

\* The name `re` resolves when a function body evaluates it.
ReResolves == "re" \in module_globals

\* The training job name recovered from the model artifact's key.
TrainingJobName(model_output_location) ==
    removesuffix(re_sub_training_prefix(model_output_location, 1, <<>>), S_output_model_tar_gz)

\* The loop over the tags: the first tag whose key contains "Testing" decides.
RECURSIVE ScanTags(_)
ScanTags(tags) ==
    IF tags = <<>> THEN <<<<>>, <<>>>>
    ELSE IF Contains(Head(tags).Key, S_Testing)
    THEN LET test_data_s3_key == Head(tags).Value
             test_data_s3_bucket_name ==
                 re_sub_object_path(removeprefix(test_data_s3_key, S_s3_scheme), 1, <<>>)
         IN  <<test_data_s3_bucket_name, test_data_s3_key>>
    ELSE ScanTags(Tail(tags))

\* get_training_job_test_data_location(model_output_location): tags is what
\* the platform holds for the training job, list_tags_ok the lookup's outcome.
get_training_job_test_data_location(model_output_location, tags, list_tags_ok) ==
    IF ~ReResolves THEN Raised(<<>>, "NameError")
    ELSE LET list_tags ==
                 Call("list_tags",
                      [ResourceArn |-> S_training_job_arn \o TrainingJobName(model_output_location)],
                      list_tags_ok)
         IN  IF ~list_tags_ok THEN Raised(<<list_tags>>, "ClientError")
             ELSE Returned(<<list_tags>>, ScanTags(tags))

\* ------------------------------------------------------------ state

VARIABLES
    clock,                 \* the wall clock: [epoch, ticks]
    invocations,           \* lambda_handler invocations started so far
    pc,                    \* the statement lambda_handler is at
    event,                 \* the argument of the running invocation
    locals,                \* lambda_handler's local variables
    calls,                 \* collaborator calls the running invocation issued
    result,                \* how the invocation ended
    sm_models,             \* platform: names of the models created
    sm_endpoint_configs,   \* platform: names of the endpoint configurations
    sm_endpoints,          \* platform: names of the endpoints
    sqs_messages,          \* messaging system: the messages accepted
    name_log,              \* every generated name with the time it was generated at
    loc_input,             \* the locator call under study: its arguments
    loc_result             \* ... and what it did

vars ==
    <<clock, invocations, pc, event, locals, calls, result, sm_models,
      sm_endpoint_configs, sm_endpoints, sqs_messages, name_log, loc_input, loc_result,
      os_environ>>

handler_vars ==
    <<clock, invocations, pc, event, locals, calls, result, sm_models,
      sm_endpoint_configs, sm_endpoints, sqs_messages, name_log>>

locator_vars == <<loc_input, loc_result>>

\* The example notification of the tests.
example_event ==
    [Records |->
        <<[eventName |-> "ObjectCreated:Put",
           s3 |-> [bucket |-> [name |-> <<"e","x","a","m","p","l","e","-","b","u","c","k","e","t">>],
                   object |-> [key |-> <<"2","0","2","4","-","0","2","-","2","3","/","o","u","t","p","u","t","/","x","g","b","o","o","s","t","-","2","0","2","4","-","0","2","-","2","3","-","1","8","-","0","4","-","0","6","-","0","2","4","/","o","u","t","p","u","t","/","m","o","d","e","l",".","t","a","r",".","g","z">>]]]>>]

\* A notification without records.
empty_event == [Records |-> <<>>]

\* The notifications the invocations are started with.
Events == {example_event, empty_event}

NoLocals ==
    [s3_record |-> [event_name |-> "", bucket_name |-> Unset, object_key |-> Unset],
     model_name |-> Unset, model_arn |-> Unset, monitoring_bucket_name |-> Unset,
     endpoint_config_name |-> Unset, endpoint_config |-> Unset,
     serverless_endpoint |-> Unset, serverless_endpoint_name |-> Unset]

NoResult == [returned |-> FALSE, raised |-> "", value |-> empty_event]

NoLocatorInput == [model_output_location |-> <<>>, tags |-> <<>>, list_tags_ok |-> TRUE]

NoLocatorResult == [called |-> FALSE, calls |-> <<>>, raised |-> "", value |-> <<>>]

\* The environments explored: the Lambda runtime always sets AWS_REGION;
\* SERVERLESS_ENVIRONMENT is unset (as under the tests), "dev" or "prod".
Environments ==
    {[AWS_REGION |-> "eu-west-2"],
     [AWS_REGION |-> "eu-west-2", SERVERLESS_ENVIRONMENT |-> "dev"],
     [AWS_REGION |-> "eu-west-2", SERVERLESS_ENVIRONMENT |-> "prod"]}

InitPlatform ==
    /\ sm_models = {}
    /\ sm_endpoint_configs = {}
    /\ sm_endpoints = {}
    /\ sqs_messages = <<>>

InitHandler ==
    /\ clock \in [epoch : EpochStarts, ticks : {0}]
    /\ invocations = 0
    /\ pc = "idle"
    /\ event = empty_event
    /\ locals = NoLocals
    /\ calls = <<>>
    /\ result = NoResult
    /\ name_log = <<>>
    /\ InitPlatform

Init ==
    /\ InitHandler
    /\ loc_input = NoLocatorInput
    /\ loc_result = NoLocatorResult
    /\ os_environ \in Environments

\* ------------------------------------------------------------ lambda_handler

\* lambda_handler with every call wrapped in a handler that logs and goes on.
AfterCall_continue(r, next_pc) == next_pc

\* Where an exception leaves lambda_handler: it has no handler of its own, so
\* the exception of a call propagates and no later statement runs.
AfterCall(r, next_pc) == IF r.raised # "" THEN "raised" ELSE next_pc

ResultAfter(r) == IF r.raised # "" THEN [NoResult EXCEPT !.raised = r.raised] ELSE NoResult

\* The name a create call asks the platform to create.
RequestedName(c) ==
    IF c.op = "create_model" THEN c.request.ModelName
    ELSE IF c.op = "create_endpoint_config" THEN c.request.EndpointConfigName
    ELSE c.request.EndpointName

CreateOps == {"create_model", "create_endpoint_config", "create_endpoint"}

\* The names the create calls of r were issued with, stamped with the time.
IssuedNames(r, prefix) ==
    LET creates == SelectSeq(r.calls, LAMBDA c : c.op \in CreateOps)
    IN  [i \in 1..Len(creates) |->
            [op |-> creates[i].op, prefix |-> prefix, name |-> RequestedName(creates[i]),
             at |-> clock.ticks]]

\* The resources the platform created for the calls of r it accepted.
Created(r, op) ==
    {RequestedName(r.calls[i]) : i \in {j \in 1..Len(r.calls) : r.calls[j].op = op /\ r.calls[j].ok}}

\* The wall clock advances.
Tick ==
    /\ clock.ticks < MaxTicks
    /\ clock' = [clock EXCEPT !.ticks = @ + 1]
    /\ UNCHANGED <<invocations, pc, event, locals, calls, result, sm_models,
                   sm_endpoint_configs, sm_endpoints, sqs_messages, name_log>>
    /\ UNCHANGED locator_vars
    /\ UNCHANGED os_environ

\* lambda_handler(event, context) is invoked: s3_record = S3Record(event).
HandlerEntry ==
    /\ pc \in {"idle", "returned", "raised"}
    /\ invocations < MaxInvocations
    /\ \E e \in Events :
        /\ event' = e
        /\ IF S3RecordValid(e)
           THEN /\ locals' = [NoLocals EXCEPT !.s3_record = S3Record(e)]
                /\ pc' = "create_sagemaker_model"
                /\ result' = NoResult
           ELSE /\ locals' = NoLocals
                /\ pc' = "raised"
                /\ result' = [NoResult EXCEPT !.raised = "MalformedEventError"]
    /\ invocations' = invocations + 1
    /\ calls' = <<>>
    /\ UNCHANGED <<clock, sm_models, sm_endpoint_configs, sm_endpoints, sqs_messages, name_log>>
    /\ UNCHANGED locator_vars
    /\ UNCHANGED os_environ

\* model_name, model_arn = create_sagemaker_model(name="xgboost", ...)
HandlerCreateModel ==
    /\ pc = "create_sagemaker_model"
    /\ \E retrieve_ok \in BOOLEAN, create_ok \in BOOLEAN :
        LET r == create_sagemaker_model(
                     S_xgboost, "xgboost",
                     S_s3_scheme \o locals.s3_record.bucket_name \o S_slash
                     \o locals.s3_record.object_key,
                     sagemaker_role_arn, "latest", WallSeconds(clock), retrieve_ok, create_ok)
        IN  /\ calls' = calls \o r.calls
            /\ name_log' = name_log \o IssuedNames(r, S_xgboost)
            /\ pc' = AfterCall(r, "get_parameter_store_value")
            /\ result' = ResultAfter(r)
            /\ IF r.raised = ""
               THEN /\ locals' = [locals EXCEPT !.model_name = r.value[1], !.model_arn = r.value[2]]
                    /\ sm_models' = sm_models \cup Created(r, "create_model")
               ELSE UNCHANGED <<locals, sm_models>>
    /\ UNCHANGED <<clock, invocations, event, sm_endpoint_configs, sm_endpoints, sqs_messages>>
    /\ UNCHANGED locator_vars
    /\ UNCHANGED os_environ

\* monitoring_bucket_name = get_parameter_store_value(name=...)
HandlerGetParameter ==
    /\ pc = "get_parameter_store_value"
    /\ \E get_ok \in BOOLEAN :
        LET r == get_parameter_store_value(ssm_model_monitoring_bucket_name, get_ok)
        IN  /\ calls' = calls \o r.calls
            /\ pc' = AfterCall(r, "create_endpoint_config")
            /\ result' = ResultAfter(r)
            /\ IF r.raised = ""
               THEN locals' = [locals EXCEPT !.monitoring_bucket_name = r.value]
               ELSE UNCHANGED locals
    /\ UNCHANGED <<clock, invocations, event, sm_models, sm_endpoint_configs, sm_endpoints,
                   sqs_messages, name_log>>
    /\ UNCHANGED locator_vars
    /\ UNCHANGED os_environ

\* The endpoint-configuration step handed the model's ARN, the other half of
\* what create_sagemaker_model returned, in place of the model's name.
HandlerCreateEndpointConfig_arn ==
    /\ pc = "create_endpoint_config"
    /\ \E create_ok \in BOOLEAN :
        LET r == create_endpoint_config(
                     S_xgboost, locals.model_arn, S_mlops, locals.monitoring_bucket_name,
                     default_memory_size_in_mb, default_max_concurrency,
                     WallSeconds(clock), create_ok)
        IN  /\ calls' = calls \o r.calls
            /\ name_log' = name_log \o IssuedNames(r, S_xgboost)
            /\ pc' = AfterCall(r, "create_serverless_endpoint")
            /\ result' = ResultAfter(r)
            /\ IF r.raised = ""
               THEN /\ locals' = [locals EXCEPT !.endpoint_config_name = r.value[1],
                                                !.endpoint_config = r.value[2]]
                    /\ sm_endpoint_configs' = sm_endpoint_configs \cup Created(r, "create_endpoint_config")
               ELSE UNCHANGED <<locals, sm_endpoint_configs>>
    /\ UNCHANGED <<clock, invocations, event, sm_models, sm_endpoints, sqs_messages>>
    /\ UNCHANGED locator_vars
    /\ UNCHANGED os_environ

\* endpoint_config_name, endpoint_config = create_endpoint_config(name="xgboost", ...)
HandlerCreateEndpointConfig ==
    /\ pc = "create_endpoint_config"
    /\ \E create_ok \in BOOLEAN :
        LET r == create_endpoint_config(
                     S_xgboost, locals.model_name, S_mlops, locals.monitoring_bucket_name,
                     default_memory_size_in_mb, default_max_concurrency,
                     WallSeconds(clock), create_ok)
        IN  /\ calls' = calls \o r.calls
            /\ name_log' = name_log \o IssuedNames(r, S_xgboost)
            /\ pc' = AfterCall(r, "create_serverless_endpoint")
            /\ result' = ResultAfter(r)
            /\ IF r.raised = ""
               THEN /\ locals' = [locals EXCEPT !.endpoint_config_name = r.value[1],
                                                !.endpoint_config = r.value[2]]
                    /\ sm_endpoint_configs' = sm_endpoint_configs \cup Created(r, "create_endpoint_config")
               ELSE UNCHANGED <<locals, sm_endpoint_configs>>
    /\ UNCHANGED <<clock, invocations, event, sm_models, sm_endpoints, sqs_messages>>
    /\ UNCHANGED locator_vars
    /\ UNCHANGED os_environ

\* The create-endpoint step with a compensating rollback: when the platform
\* rejects the endpoint, the endpoint configuration and the model are deleted.
HandlerCreateEndpoint_rollback ==
    /\ pc = "create_serverless_endpoint"
    /\ \E create_ok \in BOOLEAN :
        LET r == create_serverless_endpoint(S_xgboost, locals.endpoint_config_name,
                                            WallSeconds(clock), create_ok)
            undo == <<Call("delete_endpoint_config",
                           [EndpointConfigName |-> locals.endpoint_config_name], TRUE),
                      Call("delete_model", [ModelName |-> locals.model_name], TRUE)>>
        IN  /\ name_log' = name_log \o IssuedNames(r, S_xgboost)
            /\ pc' = AfterCall(r, "trigger_model_evaluation")
            /\ result' = ResultAfter(r)
            /\ IF r.raised = ""
               THEN /\ calls' = calls \o r.calls
                    /\ locals' = [locals EXCEPT !.serverless_endpoint = r.value[1],
                                                !.serverless_endpoint_name = r.value[2]]
                    /\ sm_endpoints' = sm_endpoints \cup Created(r, "create_endpoint")
                    /\ UNCHANGED <<sm_models, sm_endpoint_configs>>
               ELSE /\ calls' = calls \o r.calls \o undo
                    /\ sm_endpoint_configs' = sm_endpoint_configs \ {locals.endpoint_config_name}
                    /\ sm_models' = sm_models \ {locals.model_name}
                    /\ UNCHANGED <<locals, sm_endpoints>>
    /\ UNCHANGED <<clock, invocations, event, sqs_messages>>
    /\ UNCHANGED locator_vars
    /\ UNCHANGED os_environ

\* serverless_endpoint, serverless_endpoint_name = create_serverless_endpoint(...)
HandlerCreateEndpoint ==
    /\ pc = "create_serverless_endpoint"
    /\ \E create_ok \in BOOLEAN :
        LET r == create_serverless_endpoint(S_xgboost, locals.endpoint_config_name,
                                            WallSeconds(clock), create_ok)
        IN  /\ calls' = calls \o r.calls
            /\ name_log' = name_log \o IssuedNames(r, S_xgboost)
            /\ pc' = AfterCall(r, "trigger_model_evaluation")
            /\ result' = ResultAfter(r)
            /\ IF r.raised = ""
               THEN /\ locals' = [locals EXCEPT !.serverless_endpoint = r.value[1],
                                                !.serverless_endpoint_name = r.value[2]]
                    /\ sm_endpoints' = sm_endpoints \cup Created(r, "create_endpoint")
               ELSE UNCHANGED <<locals, sm_endpoints>>
    /\ UNCHANGED <<clock, invocations, event, sm_models, sm_endpoint_configs, sqs_messages>>
    /\ UNCHANGED locator_vars
    /\ UNCHANGED os_environ

\* The messages the messaging system accepted among the calls of r.
Accepted(r) ==
    LET sent == SelectSeq(r.calls, LAMBDA c : c.op = "send_message" /\ c.ok)
    IN  [i \in 1..Len(sent) |-> sent[i].request]

\* trigger_model_evaluation(endpoint_name=serverless_endpoint_name,
\* test_data_s3_bucket_name="", test_data_s3_key="", queue_name="")
HandlerTriggerEvaluation ==
    /\ pc = "trigger_model_evaluation"
    /\ \E url_ok \in BOOLEAN, send_ok \in BOOLEAN :
        LET r == trigger_model_evaluation(locals.serverless_endpoint_name, <<>>, <<>>, <<>>,
                                          url_ok, send_ok)
        IN  /\ calls' = calls \o r.calls
            /\ sqs_messages' = sqs_messages \o Accepted(r)
            /\ pc' = AfterCall(r, "return")
            /\ result' = ResultAfter(r)
    /\ UNCHANGED <<clock, invocations, event, locals, sm_models, sm_endpoint_configs,
                   sm_endpoints, name_log>>
    /\ UNCHANGED locator_vars
    /\ UNCHANGED os_environ

\* return event
HandlerReturn ==
    /\ pc = "return"
    /\ pc' = "returned"
    /\ result' = [returned |-> TRUE, raised |-> "", value |-> event]
    /\ UNCHANGED <<clock, invocations, event, locals, calls, sm_models, sm_endpoint_configs,
                   sm_endpoints, sqs_messages, name_log>>
    /\ UNCHANGED locator_vars
    /\ UNCHANGED os_environ

\* ------------------------------------------------------------ the locator, called

L_date_1 == <<"2","0","2","4","-","0","4","-","2","2">>
L_date_2 == <<"2","0","2","4","-","0","2","-","2","3">>
L_segment_1 == <<"o","u","t","p","u","t">>
L_segment_2 == <<"r","u","n","1">>
L_job_1 == <<"x","g","b","o","o","s","t","-","2","0","2","4","-","0","4","-","2","2","-","2","0","-","5","1","-","1","8","-","6","1","0">>
L_job_2 == <<"j","o","b","-","2","0","2","4","-","0","4","-","2","2">>
L_job_3 == <<"x","g","b">>
L_test_csv_1 == <<"s","3",":","/","/","b","u","c","k","e","t","-","n","a","m","e","/","a","u","t","o","m","l","/","2","0","2","4","-","0","4","-","2","2","/","t","r","a","i","n","i","n","g","/","t","e","s","t","i","n","g","/","t","e","s","t","_","2","1","_","5","1","_","1","8",".","c","s","v">>
L_test_csv_2 == <<"s","3",":","/","/","b","u","c","k","e","t","-","n","a","m","e","/","d","a","t","a","/","t","e","s","t",".","c","s","v">>
L_string == <<"s","t","r","i","n","g">>
L_AutoMLTestingData == <<"A","u","t","o","M","L","T","e","s","t","i","n","g","D","a","t","a">>
L_Training == <<"T","r","a","i","n","i","n","g">>

Dates == {L_date_1, L_date_2}

Segments == {L_segment_1, L_segment_2}

TrainingIds == {L_job_1, L_job_2, L_job_3}

\* <date>/<segment>/<training-id>/output/model.tar.gz
ArtifactKey(date, segment, id) ==
    date \o S_slash \o segment \o S_slash \o id \o S_output_model_tar_gz

ArtifactKeys == {ArtifactKey(d, g, t) : d \in Dates, g \in Segments, t \in TrainingIds}

\* The list_tags response of the tests.
example_sagemaker_list_tags ==
    <<[Key |-> L_string, Value |-> L_string], [Key |-> L_string, Value |-> L_string],
      [Key |-> S_Testing, Value |-> L_test_csv_1]>>

\* The tags the platform may hold for a training job.
TagLists ==
    {<<>>,
     example_sagemaker_list_tags,
     <<[Key |-> L_Training, Value |-> L_test_csv_2]>>,
     <<[Key |-> L_AutoMLTestingData, Value |-> L_test_csv_2]>>,
     <<[Key |-> S_Testing, Value |-> L_test_csv_2], [Key |-> S_Testing, Value |-> L_test_csv_1]>>}

\* get_training_job_test_data_location is called, as its test calls it.
LocatorCall ==
    /\ \E key \in ArtifactKeys, tags \in TagLists, ok \in BOOLEAN :
        LET r == get_training_job_test_data_location(key, tags, ok)
        IN  /\ loc_input' = [model_output_location |-> key, tags |-> tags, list_tags_ok |-> ok]
            /\ loc_result' = [called |-> TRUE, calls |-> r.calls, raised |-> r.raised,
                              value |-> r.value]
    /\ UNCHANGED handler_vars
    /\ UNCHANGED os_environ

\* ------------------------------------------------------------ specifications

Next ==
    \/ Tick
    \/ HandlerEntry
    \/ HandlerCreateModel
    \/ HandlerGetParameter
    \/ HandlerCreateEndpointConfig
    \/ HandlerCreateEndpoint
    \/ HandlerTriggerEvaluation
    \/ HandlerReturn

\* The invocations of lambda_handler.
Spec == Init /\ [][Next]_vars

NextLocator == LocatorCall

\* The calls of get_training_job_test_data_location.
SpecLocator == Init /\ [][NextLocator]_vars

\* ------------------------------------------------------------ claims

\* The positions of the calls of an operation in the running invocation.
CallsOf(op) == {i \in 1..Len(calls) : calls[i].op = op}

\* An earlier call of the operation that the platform accepted.
AcceptedBefore(op, i) == \E j \in 1..(i - 1) : calls[j].op = op /\ calls[j].ok

\* The create calls of the running invocation, in the order issued.
CreateOrder ==
    LET creates == SelectSeq(calls, LAMBDA c : c.op \in CreateOps)
    IN  [i \in 1..Len(creates) |-> creates[i].op]

\* C1: create-endpoint-config is issued only after create-model returned
\* successfully, create-endpoint only after create-endpoint-config returned
\* successfully, and the three calls are issued in no other order.
C1_ProvisioningOrder ==
    /\ \A i \in CallsOf("create_endpoint_config") : AcceptedBefore("create_model", i)
    /\ \A i \in CallsOf("create_endpoint") : AcceptedBefore("create_endpoint_config", i)
    /\ CreateOrder = Take(<<"create_model", "create_endpoint_config", "create_endpoint">>,
                          Len(CreateOrder))

\* An invocation issued all three create calls and returned.
C1_Witness ==
    /\ pc = "returned"
    /\ CreateOrder = <<"create_model", "create_endpoint_config", "create_endpoint">>

\* C2: a rejected call ends the invocation: it is the last call issued and the
\* handler has raised; after a rejected create-endpoint-config there is no
\* create-endpoint call and no evaluation-queue message.
C2_AbortOnRejection ==
    /\ \A i \in 1..Len(calls) : ~calls[i].ok => (i = Len(calls) /\ pc = "raised")
    /\ (\E i \in CallsOf("create_endpoint_config") : ~calls[i].ok)
           => (CallsOf("create_endpoint") = {} /\ CallsOf("send_message") = {})

\* The platform rejected create-endpoint-config after it had created the model.
C2_Witness ==
    /\ pc = "raised"
    /\ \E i \in CallsOf("create_endpoint_config") : ~calls[i].ok
    /\ \E i \in CallsOf("create_model") : calls[i].ok

\* The body of the evaluation message of the running invocation, decoded.
SentMessage == json_loads(calls[CHOOSE i \in CallsOf("send_message") : TRUE].request.MessageBody)

\* The endpoint name create_serverless_endpoint generated in the running invocation.
GeneratedEndpointName == calls[CHOOSE i \in CallsOf("create_endpoint") : TRUE].request.EndpointName

\* C3: an invocation in which every collaborator call succeeds issues exactly
\* one create-model, one create-endpoint-config, one create-endpoint call and
\* one evaluation-queue message, whose endpointName is the endpoint name
\* create_serverless_endpoint generated.
C3_OneOfEach ==
    pc \in {"return", "returned"} =>
        /\ Cardinality(CallsOf("create_model")) = 1
        /\ Cardinality(CallsOf("create_endpoint_config")) = 1
        /\ Cardinality(CallsOf("create_endpoint")) = 1
        /\ Cardinality(CallsOf("send_message")) = 1
        /\ sqs_messages # <<>>
        /\ JsonGet(json_loads(sqs_messages[Len(sqs_messages)].MessageBody), S_endpointName)
               = GeneratedEndpointName
        /\ JsonGet(SentMessage, S_endpointName) = GeneratedEndpointName

\* An invocation returned with every call accepted and its message dispatched.
C3_Witness ==
    /\ pc = "returned"
    /\ result.returned
    /\ \A i \in 1..Len(calls) : calls[i].ok
    /\ StartsWith(JsonGet(SentMessage, S_endpointName), S_xgboost \o S_serverless_ep)

\* C4: in a successful invocation the training-job locator runs after the
\* three provisioning steps and before the notifier, and the message carries
\* the bucket and key the locator returned for the notification's object key.
C4_LocatorFeedsNotifier ==
    pc = "returned" =>
        /\ \E k \in CallsOf("list_tags") :
               /\ \A i \in CallsOf("create_endpoint") : i < k
               /\ \A i \in CallsOf("get_queue_url") : k < i
        /\ \E tags \in TagLists :
               LET located == get_training_job_test_data_location(
                                  locals.s3_record.object_key, tags, TRUE)
               IN  /\ located.raised = ""
                   /\ JsonGet(SentMessage, S_testDataS3BucketName) = located.value[1]
                   /\ JsonGet(SentMessage, S_testDataS3Key) = located.value[2]

\* C7: every create-endpoint-config request carries exactly one production
\* variant with a serverless capacity profile (4096 MB, max concurrency 1)
\* and no data-capture configuration.
C7_ServerlessNoDataCapture ==
    \A i \in CallsOf("create_endpoint_config") :
        /\ Len(calls[i].request.ProductionVariants) = 1
        /\ calls[i].request.ProductionVariants[1].ServerlessConfig
               = [MemorySizeInMB |-> 4096, MaxConcurrency |-> 1]
        /\ "DataCaptureConfig" \notin DOMAIN calls[i].request

\* The notifier failed: the last call of the invocation is a rejected
\* get_queue_url or send_message.
NotifierFailed ==
    /\ calls # <<>>
    /\ calls[Len(calls)].op \in {"get_queue_url", "send_message"}
    /\ ~calls[Len(calls)].ok

\* C8: a failed queue resolution or dispatch is not retried (at most one
\* get_queue_url and one send_message call per invocation), it propagates out
\* of lambda_handler (the event is not returned), and the model, endpoint
\* configuration and endpoint created in the invocation stay on the platform.
C8_NotifierFailureIsFatal ==
    /\ Cardinality(CallsOf("get_queue_url")) <= 1
    /\ Cardinality(CallsOf("send_message")) <= 1
    /\ NotifierFailed =>
           /\ pc = "raised"
           /\ ~result.returned
           /\ result.raised # ""
           /\ locals.model_name \in sm_models
           /\ locals.endpoint_config_name \in sm_endpoint_configs
           /\ locals.serverless_endpoint_name \in sm_endpoints

\* The dispatch failed after the endpoint had been created.
C8_Witness ==
    /\ NotifierFailed
    /\ calls[Len(calls)].op = "send_message"
    /\ sm_endpoints # {}

\* The order of the characters of a timestamp: "-" < "0" < ... < "9".
CharOrd(c) == IF c = "-" THEN 0 ELSE 1 + CHOOSE d \in 0..9 : DigitChars[d + 1] = c

\* a < b for two strings of the same length.
RECURSIVE StrLess(_, _)
StrLess(a, b) ==
    IF a = <<>> \/ b = <<>> THEN FALSE
    ELSE IF Head(a) # Head(b) THEN CharOrd(Head(a)) < CharOrd(Head(b))
    ELSE StrLess(Tail(a), Tail(b))

\* The timestamp a generated name ends with.
TimestampOf(name) == Drop(name, Len(name) - TimestampLen)

\* C9: a generated name begins with <prefix>-serverless, and of two calls of
\* the same create operation with the same prefix the one made at the later
\* wall-clock time embeds the strictly greater timestamp, so the names differ.
C9_StrictlyIncreasingNames ==
    /\ \A i \in 1..Len(name_log) :
           StartsWith(name_log[i].name, name_log[i].prefix \o Take(S_serverless, 11))
    /\ \A i, j \in 1..Len(name_log) :
           (/\ name_log[i].op = name_log[j].op
            /\ name_log[i].prefix = name_log[j].prefix
            /\ name_log[i].at < name_log[j].at)
           => /\ StrLess(TimestampOf(name_log[i].name), TimestampOf(name_log[j].name))
              /\ name_log[i].name # name_log[j].name

\* The first tag whose key contains "Testing", <<>> when there is none.
FirstTestingTag(tags) == SelectSeq(tags, LAMBDA t : Contains(t.Key, S_Testing))

\* The locator scheme://bucket/key split at "://" and at the first slash after it.
LocatorBucket(v) ==
    LET rest == Drop(v, (CHOOSE i \in 1..(Len(v) - 2) : SubSeq(v, i, i + 2) = <<":", "/", "/">>) + 2)
    IN  Take(rest, (CHOOSE i \in 1..Len(rest) : rest[i] = "/" /\ \A j \in 1..(i - 1) : rest[j] # "/") - 1)

LocatorKey(v) ==
    LET rest == Drop(v, (CHOOSE i \in 1..(Len(v) - 2) : SubSeq(v, i, i + 2) = <<":", "/", "/">>) + 2)
    IN  Drop(rest, CHOOSE i \in 1..Len(rest) : rest[i] = "/" /\ \A j \in 1..(i - 1) : rest[j] # "/")

\* C5: with a tag whose key contains "Testing" and whose value is
\* scheme://bucket/key, the locator returns (bucket, key): the part between
\* the scheme and the first following slash, and the remainder.
C5_SplitsLocator ==
    (/\ loc_result.called
     /\ loc_input.list_tags_ok
     /\ FirstTestingTag(loc_input.tags) # <<>>)
    => /\ loc_result.raised = ""
       /\ loc_result.value = <<LocatorBucket(FirstTestingTag(loc_input.tags)[1].Value),
                               LocatorKey(FirstTestingTag(loc_input.tags)[1].Value)>>

\* C6: when the tag lookup succeeds and no tag has a key containing
\* "Testing" (the empty list included), the locator returns an empty bucket
\* and an empty key and does not raise.
C6_NoTestingTagGivesEmpty ==
    (/\ loc_result.called
     /\ loc_input.list_tags_ok
     /\ FirstTestingTag(loc_input.tags) = <<>>)
    => /\ loc_result.raised = ""
       /\ loc_result.value = <<<<>>, <<>>>>

\* C10: for an artifact key <date>/<segment>/<training-id>/output/model.tar.gz
\* the tag lookup is addressed to the training-job resource whose id is
\* exactly <training-id>.
C10_LookupAddressesTrainingJob ==
    \A d \in Dates, g \in Segments, t \in TrainingIds :
        (loc_result.called /\ loc_input.model_output_location = ArtifactKey(d, g, t))
        => \E i \in 1..Len(loc_result.calls) :
               /\ loc_result.calls[i].op = "list_tags"
               /\ loc_result.calls[i].request.ResourceArn = S_training_job_arn \o t

\* The collaborator operations lambda_handler issues: lookups, creates and
\* the two messaging calls.
HandlerOps ==
    {"image_uris.retrieve", "create_model", "get_parameter", "create_endpoint_config",
     "create_endpoint", "get_queue_url", "send_message"}

\* The create calls of a call log that the platform accepted.
AcceptedCreates(log, op) ==
    {RequestedName(log[i]) : i \in {j \in 1..Len(log) : log[j].op = op /\ log[j].ok}}

\* C11: no step deletes or modifies what an earlier step created: every step
\* leaves each model, endpoint configuration and endpoint of the platform in
\* place, issues no call other than lookups, creates and the messaging calls
\* (no delete, no update), and after it, a failure included, every resource
\* whose create call succeeded in the invocation exists.
C11_NoRollback ==
    [][/\ sm_models \subseteq sm_models'
       /\ sm_endpoint_configs \subseteq sm_endpoint_configs'
       /\ sm_endpoints \subseteq sm_endpoints'
       /\ \A i \in 1..Len(calls') : calls'[i].op \in HandlerOps
       /\ AcceptedCreates(calls', "create_model") \subseteq sm_models'
       /\ AcceptedCreates(calls', "create_endpoint_config") \subseteq sm_endpoint_configs'
       /\ AcceptedCreates(calls', "create_endpoint") \subseteq sm_endpoints']_vars

\* The platform rejected create-endpoint: the model and the endpoint
\* configuration created before it are still there.
C11_Witness ==
    /\ pc = "raised"
    /\ \E i \in CallsOf("create_endpoint") : ~calls[i].ok
    /\ AcceptedCreates(calls, "create_model") # {}
    /\ AcceptedCreates(calls, "create_model") \subseteq sm_models
    /\ AcceptedCreates(calls, "create_endpoint_config") # {}
    /\ AcceptedCreates(calls, "create_endpoint_config") \subseteq sm_endpoint_configs

\* C12: within one invocation the model name passed to the
\* create-endpoint-config step is the name the create-model step returned,
\* and the endpoint-config name passed to the create-endpoint step is the
\* name the create-endpoint-config step returned.
C12_OutputsWired ==
    /\ \A i \in CallsOf("create_endpoint_config") :
           /\ locals.model_name # Unset
           /\ \A v \in 1..Len(calls[i].request.ProductionVariants) :
                  calls[i].request.ProductionVariants[v].ModelName = locals.model_name
           /\ \E j \in 1..(i - 1) :
                  /\ calls[j].op = "create_model"
                  /\ calls[j].ok
                  /\ calls[j].request.ModelName = locals.model_name
    /\ \A i \in CallsOf("create_endpoint") :
           /\ locals.endpoint_config_name # Unset
           /\ calls[i].request.EndpointConfigName = locals.endpoint_config_name
           /\ \E j \in 1..(i - 1) :
                  /\ calls[j].op = "create_endpoint_config"
                  /\ calls[j].ok
                  /\ calls[j].request.EndpointConfigName = locals.endpoint_config_name

\* The endpoint was created from the configuration that names the model.
C12_Witness ==
    /\ \E i \in CallsOf("create_endpoint") :
           /\ calls[i].ok
           /\ StartsWith(calls[i].request.EndpointConfigName, S_xgboost \o S_serverless_epc)
    /\ \E i \in CallsOf("create_endpoint_config") :
           StartsWith(calls[i].request.ProductionVariants[1].ModelName,
                      S_xgboost \o S_serverless)

====
